---- MODULE Spec2Model ----
(***************************************************************************)
(* CivicAtlas scraper: the retry decorator and normalize_text (utils.py),  *)
(* the parallel run of scrape_all_data with its region tasks, shared       *)
(* statistics and output files, the consolidation step and the ward        *)
(* extractor (scraper.py), and the exit status of main (main.py).          *)
(***************************************************************************)
EXTENDS Integers, Sequences, FiniteSets

(* ------------------------------ bounds -------------------------------- *)
MaxN == 3            \* largest max_retries the wrapper is explored with
MaxRegions == 2      \* state links on the site root
MaxDistricts == 2    \* district links on a region page
MaxLinks == 2        \* urban-body links on one page
MaxUrl == 2          \* distinct urban-body urls of the site
MaxWards == 1        \* ward rows on an urban-body page
MaxCells == 4        \* cells of a table row handed to the ward extractor
MaxFiles == 3        \* region files in the output directory at consolidation
MaxFileRows == 3     \* data rows of a region file at consolidation
MaxText == 4         \* characters of a text handed to normalize_text
MaxRunLen == 3       \* urban-body links of a district page in the listing runs
MaxRunUrl == 5       \* distinct urban-body urls in the listing runs

(* ------------------------- program constants -------------------------- *)
FetchMaxRetries == 3 \* max_retries of every decorated fetch
RootDelay == 2       \* delay of get_state_urban_body_urls
PageDelay == 1       \* delay of the region, district and ward fetches
Backoff == 2         \* backoff multiplier of retry_on_failure
MaxWorkers == 30     \* ThreadPoolExecutor(max_workers=30)

NoVal == "none"
NoTmp == 0 - 1

VARIABLES
  retry,        \* one call of a function decorated by retry_on_failure
  extract,      \* one call of _extract_ward_info_from_cells
  helper,       \* one call of normalize_text or _extract_ulb_type_from_url
  pc,           \* position of the main thread
  discovery,    \* how get_state_urban_body_urls ended
  state_urls,   \* names (keys) of the discovered state links
  futures,      \* futures as_completed has not yielded yet
  task,         \* per region: the process_state_to_file task
  stats,        \* self.stats
  stats_lock,   \* self.stats_lock is held
  main_cs,      \* main thread inside `with self.stats_lock`
  files,        \* the csv files of the output directory
  consolidation,\* how _create_consolidated_file ended
  listing,      \* what its os.listdir loop met: the files and the unreadable ones
  result,       \* value returned by scrape_all_data
  exit_code,    \* exit status of the process
  interrupted,  \* KeyboardInterrupt was delivered to the main thread
  contrib,      \* history: amounts the threads set out to add per counter
  failed_units, \* history: units whose fetch failed after all retries
  unlisted,     \* history: regions whose district fetches all failed
  io_errors     \* history: file writes that failed

vars == <<retry, extract, helper, pc, discovery, state_urls, futures, task, stats,
          stats_lock, main_cs, files, consolidation, listing, result, exit_code,
          interrupted, contrib, failed_units, unlisted, io_errors>>

runVars == <<pc, discovery, state_urls, futures, task, stats, stats_lock,
             main_cs, files, consolidation, listing, result, exit_code,
             interrupted, contrib, failed_units, unlisted, io_errors>>

(* ===================== utils.py: retry_on_failure ===================== *)

Exceptions == {"E1", "E2"}
Returned(v) == [ok |-> TRUE, val |-> v]
Raised(e) == [ok |-> FALSE, val |-> e]

\* wrapper(): state on entry, before the first loop iteration
RetryStart(max_retries, delay) ==
  [max_retries |-> max_retries, attempt |-> 0, current_delay |-> delay,
   last_exception |-> NoVal, status |-> "running", value |-> NoVal,
   log |-> <<>>, warnings |-> 0, errors |-> 0, sleeps |-> <<>>]

\* a wrapper whose loop runs one iteration too few
RetryIterShort(r, out) ==
  IF out.ok
  THEN [r EXCEPT !.log = Append(@, out), !.status = "returned", !.value = out.val]
  ELSE IF r.attempt + 1 < r.max_retries
       THEN [r EXCEPT !.log = Append(@, out), !.last_exception = out.val,
                      !.warnings = @ + 1, !.sleeps = Append(@, r.current_delay),
                      !.current_delay = @ * Backoff, !.attempt = @ + 1]
       ELSE [r EXCEPT !.log = Append(@, out), !.last_exception = out.val,
                      !.errors = @ + 1, !.attempt = @ + 1,
                      !.status = "raised", !.value = out.val]

\* a wrapper whose delay grows by addition
RetryIterLinear(r, out) ==
  IF out.ok
  THEN [r EXCEPT !.log = Append(@, out), !.status = "returned", !.value = out.val]
  ELSE IF r.attempt < r.max_retries
       THEN [r EXCEPT !.log = Append(@, out), !.last_exception = out.val,
                      !.warnings = @ + 1, !.sleeps = Append(@, r.current_delay),
                      !.current_delay = @ + Backoff, !.attempt = @ + 1]
       ELSE [r EXCEPT !.log = Append(@, out), !.last_exception = out.val,
                      !.errors = @ + 1, !.attempt = @ + 1,
                      !.status = "raised", !.value = out.val]

\* a wrapper that logs a failed attempt it will retry at error level
RetryIterNoWarn(r, out) ==
  IF out.ok
  THEN [r EXCEPT !.log = Append(@, out), !.status = "returned", !.value = out.val]
  ELSE IF r.attempt < r.max_retries
       THEN [r EXCEPT !.log = Append(@, out), !.last_exception = out.val,
                      !.errors = @ + 1, !.sleeps = Append(@, r.current_delay),
                      !.current_delay = @ * Backoff, !.attempt = @ + 1]
       ELSE [r EXCEPT !.log = Append(@, out), !.last_exception = out.val,
                      !.errors = @ + 1, !.attempt = @ + 1,
                      !.status = "raised", !.value = out.val]

\* one iteration of `for attempt in range(max_retries + 1)`: func is invoked
\* and ends as `out`; the last iteration falls through to `raise last_exception`
RetryIter(r, out) ==
  IF out.ok
  THEN [r EXCEPT !.log = Append(@, out), !.status = "returned", !.value = out.val]
  ELSE IF r.attempt < r.max_retries
       THEN [r EXCEPT !.log = Append(@, out), !.last_exception = out.val,
                      !.warnings = @ + 1, !.sleeps = Append(@, r.current_delay),
                      !.current_delay = @ * Backoff, !.attempt = @ + 1]
       ELSE [r EXCEPT !.log = Append(@, out), !.last_exception = out.val,
                      !.errors = @ + 1, !.attempt = @ + 1,
                      !.status = "raised", !.value = out.val]

\* the whole call: outs[i] is how the i-th invocation of func ends
RECURSIVE RetryRun(_, _)
RetryRun(r, outs) ==
  IF r.status # "running" THEN r
  ELSE RetryRun(RetryIter(r, outs[Len(r.log) + 1]), outs)

\* a fetch that raises on its first k invocations and returns v afterwards
FailThenReturn(k, v) ==
  [i \in 1..(FetchMaxRetries + 1) |->
     IF i <= k THEN Raised("RequestException") ELSE Returned(v)]

\* a decorated fetch, as its caller sees it
Fetch(delay, k, v) ==
  LET r == RetryRun(RetryStart(FetchMaxRetries, delay), FailThenReturn(k, v))
  IN  [status |-> r.status, value |-> r.value]

FailureCounts == 0..(FetchMaxRetries + 1)

(* ====================== scraper.py: the web site ====================== *)

\* names the state links of the site root can carry
RegionPool ==
  << <<"A", "/", "B">>, <<"A", ":", "B">>, <<"G", "o", "a">>, <<"D", "i", "u">>,
     <<"P", "b">> >>
Regions ==
  {RegionPool[n] : n \in 1..(IF MaxRegions < Len(RegionPool) THEN MaxRegions ELSE Len(RegionPool))}

Urls == 1..MaxUrl
Unknown == 0
RECURSIVE SeqsUpTo(_, _)
SeqsUpTo(S, n) ==
  IF n = 0 THEN {<<>>}
  ELSE LET shorter == SeqsUpTo(S, n - 1)
       IN  shorter \cup {Append(q, x) : q \in {t \in shorter : Len(t) = n - 1}, x \in S}
\* a fetched region page: its district links and the urban-body links of its
\* tables, in document order
RegionPages(districts, link_seqs) ==
  {[district_links |-> <<>>, body_links |-> ls] : ls \in link_seqs}
    \cup {[district_links |-> [k \in 1..n |-> k], body_links |-> ls] :
            n \in 1..districts, ls \in {<<>>, <<1>>}}

\* the pages the site can serve: the dicts of state links parsed from the site
\* root, the region pages, the urban-body links of a district page and the
\* ward rows of an urban-body page.
\* WholeSite: up to MaxRegions states, each page with at most one link and each
\* urban body with at most one ward.
WholeSite ==
  [roots |-> SUBSET Regions,
   pages |-> RegionPages(1, SeqsUpTo({1}, 1)),
   links |-> SeqsUpTo({1}, 1),
   wards |-> {<<>>, <<1>>}]
\* RegionSite: one state, up to MaxDistricts districts, MaxLinks links a page
\* and MaxWards wards an urban body
RegionSite ==
  [roots |-> {{r} : r \in Regions},
   pages |-> RegionPages(MaxDistricts, SeqsUpTo(Urls, MaxLinks)),
   links |-> SeqsUpTo(Urls, MaxLinks),
   wards |-> {[w \in 1..n |-> w] : n \in 0..MaxWards}]

(* ============== scraper.py: get_urban_bodies_from_state ================ *)

Body(u, d) == [url |-> u, district |-> d]
\* a district listing that loses the name of the district
TagAllUnknown(links, d) == [k \in 1..Len(links) |-> Body(links[k], Unknown)]
\* lines 347-352: every link of the page becomes an entry with 'district'
TagAll(links, d) == [k \in 1..Len(links) |-> Body(links[k], d)]

\* get_urban_bodies_from_district as called through its decorator: the
\* urban-body links of the district page, or the exception of the last attempt
DistrictFetches(site) ==
  {Fetch(PageDelay, k, ls) : k \in FailureCounts, ls \in site.links}

\* body of `for district_link in district_links`: extend by the links of the
\* district page, each tagged with the district; on failure log and continue
OnDistrict(acc, district, res) ==
  IF res.status = "raised"
  THEN [acc EXCEPT !.log = Append(@, [district |-> district, ok |-> FALSE,
                                      links |-> <<>>])]
  ELSE [acc EXCEPT !.urban_bodies = @ \o TagAll(res.value, district),
                   !.log = Append(@, [district |-> district, ok |-> TRUE,
                                      links |-> res.value])]

RECURSIVE DistrictLoop(_, _, _, _)
DistrictLoop(k, district_links, fetched, acc) ==
  IF k > Len(district_links) THEN acc
  ELSE DistrictLoop(k + 1, district_links, fetched,
                    OnDistrict(acc, district_links[k], fetched[k]))

\* a duplicate filter that keeps everything
UnseenAll(body, seen_urls) == TRUE

\* `if body['url'] not in seen_urls`
Unseen(body, seen_urls) == body.url \notin seen_urls

RECURSIVE Dedup(_, _, _)
Dedup(urban_bodies, unique_bodies, seen_urls) ==
  IF urban_bodies = <<>> THEN unique_bodies
  ELSE LET body == Head(urban_bodies)
       IN  IF Unseen(body, seen_urls)
           THEN Dedup(Tail(urban_bodies), Append(unique_bodies, body),
                      seen_urls \cup {body.url})
           ELSE Dedup(Tail(urban_bodies), unique_bodies, seen_urls)

NoFrame == [district_links |-> <<>>, urban_bodies |-> <<>>, log |-> <<>>]

\* a listing that scans the tables of the region page when its districts gave
\* nothing
GetUrbanBodiesFromStateFallback(page, fetched) ==
  LET start == [NoFrame EXCEPT !.district_links = page.district_links]
      looped == DistrictLoop(1, page.district_links, fetched, start)
      frame == IF page.district_links # <<>> /\ looped.urban_bodies # <<>>
               THEN looped
               ELSE [looped EXCEPT !.urban_bodies = TagAll(page.body_links, Unknown)]
  IN  [frame |-> frame, unique_bodies |-> Dedup(frame.urban_bodies, <<>>, {})]

\* one invocation of the function body on a fetched region page; fetched[k] is
\* what the k-th district fetch gave
GetUrbanBodiesFromState(page, fetched) ==
  LET start == [NoFrame EXCEPT !.district_links = page.district_links]
      frame == IF page.district_links # <<>>
               THEN DistrictLoop(1, page.district_links, fetched, start)
               ELSE [start EXCEPT !.urban_bodies = TagAll(page.body_links, Unknown)]
  IN  [frame |-> frame, unique_bodies |-> Dedup(frame.urban_bodies, <<>>, {})]

FailedDistricts(frame) ==
  Cardinality({k \in 1..Len(frame.log) : ~frame.log[k].ok})
\* the page had district links and the handler of lines 265-267 ran for each
AllDistrictsFailed(frame) ==
  frame.district_links # <<>> /\ \A k \in 1..Len(frame.log) : ~frame.log[k].ok

(* ======================= scraper.py: the files ======================== *)

UnsafeChars == {"<", ">", ":", "\"", "/", "\\", "|", "?", "*"}
\* re.sub(r'[<>:"/\\|?*]', '_', state_name)
SafeName(name) ==
  [n \in 1..Len(name) |-> IF name[n] \in UnsafeChars THEN "_" ELSE name[n]]
OutputFile(state_name) == Append(SafeName(state_name), ".csv")
ConsolidatedFile == <<"all_states_consolidated", ".csv">>

Header == [kind |-> "header", state |-> <<>>, url |-> 0, district |-> 0, ward |-> 0]
Row(state_name, body, ward) ==
  [kind |-> "row", state |-> state_name, url |-> body.url,
   district |-> body.district, ward |-> ward]

Exists(f) == f \in DOMAIN files
Content(f) == IF Exists(f) THEN files[f] ELSE <<>>
Written(fs, f, lines) ==
  [g \in DOMAIN fs \cup {f} |-> IF g = f THEN lines ELSE fs[g]]

(* ========================= the initial state ========================== *)

Counters ==
  {"states_processed", "urban_bodies_processed", "wards_extracted", "errors", "skipped"}
NoCs == [todo |-> <<>>, tmp |-> NoTmp]
Add(key, delta) == [key |-> key, delta |-> delta]
NewTask(p) ==
  [pc |-> p, exc |-> NoVal, frame |-> NoFrame, unique_bodies |-> <<>>, i |-> 0,
   state_wards |-> 0, state_bodies |-> 0, state_skipped |-> 0, cs |-> NoCs,
   fetched |-> <<>>]

\* line 450: ward_info = {'ward_number': '', 'ward_name': '', 'lgd_code': ''}
Fields == {"ward_number", "ward_name", "lgd_code"}
NoWard == [f \in Fields |-> <<>>]
NoneResult == [none |-> TRUE, record |-> NoWard]
\* _create_consolidated_file has not listed the directory
NoListing == [order |-> <<>>, unreadable |-> {}, warnings |-> 0]
\* no call of the ward extractor under way
ExtractIdle ==
  [cells |-> <<>>, cell_texts |-> <<>>, i |-> 0, ward_info |-> NoWard,
   status |-> "idle", result |-> NoneResult,
   prev |-> NoWard, branch |-> "none", overwritten |-> {}]

\* no call of a text helper under way
NoText == [null |-> FALSE, text |-> <<>>]
CallIdle == [func |-> "none", arg |-> NoText, status |-> "idle", value |-> <<>>]

\* CivicAtlasScraper.__init__ and the start of main()
InitRun ==
  /\ pc = "start"
  /\ discovery = NoVal
  /\ state_urls = {}
  /\ futures = {}
  /\ task = [r \in Regions |-> NewTask("none")]
  /\ stats = [c \in Counters |-> 0]
  /\ stats_lock = FALSE
  /\ main_cs = NoCs
  /\ files = <<>>
  /\ consolidation = NoVal
  /\ listing = NoListing
  /\ result = NoVal
  /\ exit_code = NoTmp
  /\ interrupted = FALSE
  /\ contrib = [c \in Counters |-> 0]
  /\ failed_units = 0
  /\ unlisted = {}
  /\ io_errors = 0

Init ==
  /\ InitRun
  /\ retry = RetryStart(FetchMaxRetries, PageDelay)
  /\ extract = ExtractIdle
  /\ helper = CallIdle

(* ============ scraper.py: scrape_all_data, the main thread ============= *)

\* get_state_urban_body_urls as called through its decorator
RootFetches(site) ==
  {Fetch(RootDelay, k, page) : k \in FailureCounts, page \in site.roots}

\* a scrape_all_data that swallows the failure of the discovery
EarlyReturnSwallow(res) ==
  IF res.status = "raised" THEN "True"
  ELSE IF res.value = {} THEN "False"
  ELSE NoVal

\* what scrape_all_data returns before any task is submitted: False from
\* `except Exception`, False from `if not state_urls`, else it goes on
EarlyReturn(res) ==
  IF res.status = "raised" THEN "False"
  ELSE IF res.value = {} THEN "False"
  ELSE NoVal

\* lines 52-75: discovery, then the submission of one task per state
Discover(site) ==
  /\ pc = "start"
  /\ \E res \in RootFetches(site) :
       /\ discovery' = IF res.status = "raised" THEN "raised"
                       ELSE IF res.value = {} THEN "empty" ELSE "found"
       /\ IF EarlyReturn(res) # NoVal
          THEN /\ result' = EarlyReturn(res)
               /\ pc' = "returned"
               /\ UNCHANGED <<state_urls, futures, task>>
          ELSE /\ state_urls' = res.value
               /\ futures' = res.value
               /\ task' = [r \in Regions |->
                             IF r \in res.value THEN NewTask("pending") ELSE task[r]]
               /\ pc' = "collect"
               /\ UNCHANGED result
  /\ UNCHANGED <<retry, extract, helper, stats, stats_lock, main_cs, files, consolidation, listing,
                 exit_code, interrupted, contrib, failed_units, io_errors,
                 unlisted>>

Finished(r) == task[r].pc \in {"done", "raised"}
Running == {r \in Regions : task[r].pc \notin {"none", "pending", "done", "raised"}}

\* an acquire that does not look at the lock
LockFreeAlways == TRUE

\* stats_lock.acquire() goes through only while the lock is not held
LockFree == ~stats_lock

\* a loop that counts every future as processed
OnFutureOk(t) == "ok_lock"

\* a loop that lets the exception of a failed task escape
OnFutureEscape(t) == IF t.pc = "raised" THEN "returned" ELSE "ok_lock"

\* lines 80-89: future.result() returns or raises the exception of the task
OnFuture(t) == IF t.pc = "raised" THEN "fail_lock" ELSE "ok_lock"

\* as_completed yields a finished future
Collect(r) ==
  /\ pc = "collect"
  /\ r \in futures
  /\ Finished(r)
  /\ futures' = futures \ {r}
  /\ pc' = OnFuture(task[r])
  /\ UNCHANGED <<retry, extract, helper, discovery, state_urls, task, stats, stats_lock, main_cs,
                 files, consolidation, listing, result, exit_code, interrupted, contrib,
                 failed_units, io_errors,
                 unlisted>>

\* `with self.stats_lock:` at line 82 or 86
MainAcquire ==
  /\ pc \in {"ok_lock", "fail_lock"}
  /\ LockFree
  /\ stats_lock' = TRUE
  /\ LET key == IF pc = "ok_lock" THEN "states_processed" ELSE "errors"
     IN  /\ main_cs' = [todo |-> <<Add(key, 1)>>, tmp |-> NoTmp]
         /\ contrib' = [contrib EXCEPT ![key] = @ + 1]
  /\ pc' = "cs"
  /\ UNCHANGED <<retry, extract, helper, discovery, state_urls, futures, task, stats, files,
                 consolidation, listing, result, exit_code, interrupted, failed_units,
                 io_errors,
                 unlisted>>

\* `self.stats[key] += 1`: the read
MainLoad ==
  /\ pc = "cs"
  /\ main_cs.tmp = NoTmp
  /\ main_cs' = [main_cs EXCEPT !.tmp = stats[Head(main_cs.todo).key]]
  /\ UNCHANGED <<retry, extract, helper, pc, discovery, state_urls, futures, task, stats, stats_lock,
                 files, consolidation, listing, result, exit_code, interrupted, contrib,
                 failed_units, io_errors,
                 unlisted>>

\* `self.stats[key] += 1`: the write, and the end of the with block
MainStore ==
  /\ pc = "cs"
  /\ main_cs.tmp # NoTmp
  /\ stats' = [stats EXCEPT ![Head(main_cs.todo).key] =
                              main_cs.tmp + Head(main_cs.todo).delta]
  /\ main_cs' = NoCs
  /\ stats_lock' = FALSE
  /\ pc' = "collect"
  /\ UNCHANGED <<retry, extract, helper, discovery, state_urls, futures, task, files, consolidation, listing,
                 result, exit_code, interrupted, contrib, failed_units, io_errors,
                 unlisted>>

(* ========== scraper.py: process_state_to_file, a region task ========== *)

\* lines 179-188: a pool worker picks the task up and lists the urban bodies
\* of the state through the decorated get_urban_bodies_from_state
StartTask(r, site) ==
  /\ task[r].pc = "pending"
  /\ Cardinality(Running) < MaxWorkers
  /\ \E page \in site.pages :
       \E fetched \in [1..Len(page.district_links) -> DistrictFetches(site)] :
         LET call == GetUrbanBodiesFromState(page, fetched)
         IN  \E res \in {Fetch(PageDelay, k, call) : k \in FailureCounts} :
               IF res.status = "raised"
               THEN /\ task' = [task EXCEPT ![r].pc = "raised", ![r].exc = res.value]
                    /\ failed_units' = failed_units + 1
                    /\ UNCHANGED unlisted
               ELSE /\ task' = [task EXCEPT ![r].pc = "listed",
                                            ![r].frame = res.value.frame,
                                            ![r].unique_bodies = res.value.unique_bodies]
                    /\ failed_units' = failed_units + FailedDistricts(res.value.frame)
                    /\ unlisted' = IF AllDistrictsFailed(res.value.frame)
                                   THEN unlisted \cup {r} ELSE unlisted
  /\ UNCHANGED <<retry, extract, helper, pc, discovery, state_urls, futures, stats, stats_lock,
                 main_cs, files, consolidation, listing, result, exit_code, interrupted,
                 contrib, io_errors>>

\* a task that treats an empty listing as a failure
AfterListingStrict(unique_bodies) == IF unique_bodies = <<>> THEN "raised" ELSE "body"

\* lines 190-199: `if not urban_bodies: ... return`, else on to the loop
AfterListing(unique_bodies) == IF unique_bodies = <<>> THEN "done" ELSE "body"

\* lines 190-199: _initialize_state_csv_file on either branch; a task that
\* returns or raises leaves its locals behind
InitFile(r) ==
  /\ task[r].pc = "listed"
  /\ \E opened \in BOOLEAN :
       IF opened
       THEN /\ files' = Written(files, OutputFile(r), <<Header>>)
            /\ task' = [task EXCEPT ![r] =
                          IF AfterListing(@.unique_bodies) = "body"
                          THEN [@ EXCEPT !.pc = "body", !.i = 1, !.frame = NoFrame]
                          ELSE NewTask(AfterListing(@.unique_bodies))]
            /\ UNCHANGED io_errors
       ELSE /\ task' = [task EXCEPT ![r] = [NewTask("raised") EXCEPT !.exc = "OSError"]]
            /\ io_errors' = io_errors + 1
            /\ UNCHANGED files
  /\ UNCHANGED <<retry, extract, helper, pc, discovery, state_urls, futures, stats, stats_lock,
                 main_cs, consolidation, listing, result, exit_code, interrupted, contrib,
                 failed_units,
                 unlisted>>

\* get_wards_from_urban_body as called through its decorator: the ward rows
WardFetches(site) ==
  {Fetch(PageDelay, k, wards) : k \in FailureCounts, wards \in site.wards}

\* a loop that has counted the urban body before its fetch failed
BodyFailedCounted(t) == [t EXCEPT !.pc = "err_lock", !.state_bodies = @ + 1]

\* a loop whose handler lets the exception end the task
BodyFailedFatal(t) == [t EXCEPT !.pc = "raised", !.exc = "RequestException"]

\* lines 224-228: `except Exception` inside the loop, on to the error count
BodyFailed(t) == [t EXCEPT !.pc = "err_lock"]

\* lines 206-222: one iteration of `for i, urban_body in enumerate(urban_bodies, 1)`
ProcessBody(r, site) ==
  LET t == task[r] IN
  /\ t.pc = "body"
  /\ t.i <= Len(t.unique_bodies)
  /\ \E res \in WardFetches(site), saved \in BOOLEAN :
       LET urban_body == t.unique_bodies[t.i]
           tf == [t EXCEPT !.fetched = Append(@, urban_body.url)]
           f == OutputFile(r)
       IN  IF res.status = "raised"
           THEN /\ task' = [task EXCEPT ![r] = BodyFailed(tf)]
                /\ failed_units' = failed_units + 1
                /\ UNCHANGED <<files, io_errors>>
           ELSE IF res.value # <<>>
           THEN IF saved
                THEN /\ files' = Written(files, f, Content(f) \o
                           [w \in 1..Len(res.value) |-> Row(r, urban_body, res.value[w])])
                     /\ task' = [task EXCEPT ![r] =
                                   [tf EXCEPT !.state_wards = @ + Len(res.value),
                                              !.state_bodies = @ + 1,
                                              !.i = @ + 1]]
                     /\ UNCHANGED <<failed_units, io_errors>>
                ELSE /\ task' = [task EXCEPT ![r] = BodyFailed(tf)]
                     /\ io_errors' = io_errors + 1
                     /\ UNCHANGED <<files, failed_units>>
           ELSE /\ task' = [task EXCEPT ![r] =
                              [tf EXCEPT !.state_skipped = @ + 1,
                                         !.state_bodies = @ + 1,
                                         !.i = @ + 1]]
                /\ UNCHANGED <<files, failed_units, io_errors>>
  /\ UNCHANGED <<retry, extract, helper, pc, discovery, state_urls, futures, stats, stats_lock,
                 main_cs, consolidation, listing, result, exit_code, interrupted, contrib,
                 unlisted>>

\* line 226: `with self.stats_lock:` in the handler of the loop
AcquireErr(r) ==
  /\ task[r].pc = "err_lock"
  /\ LockFree
  /\ stats_lock' = TRUE
  /\ task' = [task EXCEPT ![r].pc = "err_cs",
                          ![r].cs = [todo |-> <<Add("errors", 1)>>, tmp |-> NoTmp]]
  /\ contrib' = [contrib EXCEPT !["errors"] = @ + 1]
  /\ UNCHANGED <<retry, extract, helper, pc, discovery, state_urls, futures, stats, main_cs, files,
                 consolidation, listing, result, exit_code, interrupted, failed_units,
                 io_errors,
                 unlisted>>

\* line 231: `with self.stats_lock:` after the loop
AcquireUpd(r) ==
  LET t == task[r] IN
  /\ t.pc = "body"
  /\ t.i > Len(t.unique_bodies)
  /\ LockFree
  /\ stats_lock' = TRUE
  /\ task' = [task EXCEPT ![r].pc = "upd_cs",
                          ![r].cs = [todo |-> <<Add("urban_bodies_processed", t.state_bodies),
                                                Add("wards_extracted", t.state_wards),
                                                Add("skipped", t.state_skipped)>>,
                                     tmp |-> NoTmp]]
  /\ contrib' = [contrib EXCEPT !["urban_bodies_processed"] = @ + t.state_bodies,
                                !["wards_extracted"] = @ + t.state_wards,
                                !["skipped"] = @ + t.state_skipped]
  /\ UNCHANGED <<retry, extract, helper, pc, discovery, state_urls, futures, stats, main_cs, files,
                 consolidation, listing, result, exit_code, interrupted, failed_units,
                 io_errors,
                 unlisted>>

\* `self.stats[key] += delta` in a task: the read
Load(r) ==
  LET t == task[r] IN
  /\ t.pc \in {"err_cs", "upd_cs"}
  /\ t.cs.tmp = NoTmp
  /\ task' = [task EXCEPT ![r].cs.tmp = stats[Head(t.cs.todo).key]]
  /\ UNCHANGED <<retry, extract, helper, pc, discovery, state_urls, futures, stats, stats_lock,
                 main_cs, files, consolidation, listing, result, exit_code, interrupted,
                 contrib, failed_units, io_errors,
                 unlisted>>

\* `self.stats[key] += delta` in a task: the write; after the last one the with
\* block ends: `continue` (line 228) or the end of the task (line 236)
Store(r) ==
  LET t == task[r]
      rest == Tail(t.cs.todo)
  IN
  /\ t.pc \in {"err_cs", "upd_cs"}
  /\ t.cs.tmp # NoTmp
  /\ stats' = [stats EXCEPT ![Head(t.cs.todo).key] = t.cs.tmp + Head(t.cs.todo).delta]
  /\ IF rest # <<>>
     THEN /\ task' = [task EXCEPT ![r].cs = [todo |-> rest, tmp |-> NoTmp]]
          /\ UNCHANGED stats_lock
     ELSE /\ stats_lock' = FALSE
          /\ task' = [task EXCEPT ![r] =
                        IF t.pc = "err_cs"
                        THEN [@ EXCEPT !.cs = NoCs, !.pc = "body", !.i = @ + 1]
                        ELSE NewTask("done")]
  /\ UNCHANGED <<retry, extract, helper, pc, discovery, state_urls, futures, main_cs, files,
                 consolidation, listing, result, exit_code, interrupted, contrib,
                 failed_units, io_errors,
                 unlisted>>

(* ============== scraper.py: _create_consolidated_file ================== *)

StateFiles == {f \in DOMAIN files : f[Len(f)] = ".csv" /\ f # ConsolidatedFile}
\* os.listdir: the files in some order
Listings(S) == {o \in [1..Cardinality(S) -> S] : \A a, b \in 1..Cardinality(S) : o[a] = o[b] => a = b}
\* a reader that hands the first line on as a row
DataRowsAll(lines) == lines

\* csv.DictReader: the first line names the fields, the others are rows
DataRows(lines) == IF lines = <<>> THEN <<>> ELSE Tail(lines)

\* a loop that ends at the first file it cannot read
RECURSIVE CombinedAbort(_, _, _)
CombinedAbort(order, unreadable, fs) ==
  IF order = <<>> \/ Head(order) \in unreadable THEN <<>>
  ELSE DataRows(fs[Head(order)]) \o CombinedAbort(Tail(order), unreadable, fs)

\* lines 536-547: the rows written for the files in listdir order; a file that
\* cannot be opened gives none and the loop continues
RECURSIVE Combined(_, _, _)
Combined(order, unreadable, fs) ==
  IF order = <<>> THEN <<>>
  ELSE (IF Head(order) \in unreadable THEN <<>> ELSE DataRows(fs[Head(order)]))
         \o Combined(Tail(order), unreadable, fs)

\* lines 545-546: one warning for each file of the listing that cannot be opened
RECURSIVE Warned(_, _)
Warned(order, unreadable) ==
  IF order = <<>> THEN 0
  ELSE (IF Head(order) \in unreadable THEN 1 ELSE 0) + Warned(Tail(order), unreadable)

\* a run that consolidates as soon as one future was handled
AllYieldedSome == futures # state_urls

\* the as_completed loop is over and the executor has shut down
AllYielded == futures = {}

\* lines 91-96: the loop and the with block are left, the consolidated file is
\* written and scrape_all_data returns True
Consolidate ==
  /\ pc = "collect"
  /\ AllYielded
  /\ \E opened \in BOOLEAN :
       IF opened
       THEN \E order \in Listings(StateFiles), unreadable \in SUBSET StateFiles :
              /\ files' = Written(files, ConsolidatedFile,
                                  <<Header>> \o Combined(order, unreadable, files))
              /\ listing' = [order |-> order, unreadable |-> unreadable,
                              warnings |-> Warned(order, unreadable)]
              /\ consolidation' = "created"
       ELSE /\ consolidation' = "failed"
            /\ UNCHANGED <<files, listing>>
  /\ result' = "True"
  /\ pc' = "returned"
  /\ UNCHANGED <<retry, extract, helper, discovery, state_urls, futures, task, stats, stats_lock,
                 main_cs, exit_code, interrupted, contrib, failed_units, io_errors,
                 unlisted>>

(* ============================ main.py: main ============================ *)

\* the attributes CivicAtlasScraper.__init__ sets
ScraperAttributes ==
  {"base_url", "logger", "output_dir", "stats", "stats_lock", "csv_fieldnames"}

\* lines 41-62: on success the summary, which reads scraper.output_file at line
\* 45; an attribute the object lacks raises AttributeError, which the handler
\* of line 59 turns into sys.exit(1); without success sys.exit(1) at line 54
ExitStatus(success) ==
  IF success = "True"
  THEN IF "output_file" \in ScraperAttributes THEN 0 ELSE 1
  ELSE 1

\* lines 36-62: scrape_all_data has returned and the process ends
MainExit ==
  /\ pc = "returned"
  /\ exit_code' = ExitStatus(result)
  /\ pc' = "exited"
  /\ UNCHANGED <<retry, extract, helper, discovery, state_urls, futures, task, stats, stats_lock,
                 main_cs, files, consolidation, listing, result, interrupted, contrib,
                 failed_units, io_errors,
                 unlisted>>

\* KeyboardInterrupt in the main thread while scrape_all_data runs: it is no
\* Exception, so it leaves scrape_all_data; inside the executor's with block
\* it first runs the block's exit
Interrupt ==
  /\ ~interrupted
  /\ pc \in {"start", "collect", "ok_lock", "fail_lock", "cs"}
  /\ interrupted' = TRUE
  /\ IF pc = "start"
     THEN /\ pc' = "exited"
          /\ exit_code' = 0
     ELSE /\ pc' = "shutdown"
          /\ UNCHANGED exit_code
  /\ stats_lock' = IF pc = "cs" THEN FALSE ELSE stats_lock
  /\ main_cs' = NoCs
  /\ UNCHANGED <<retry, extract, helper, discovery, state_urls, futures, task, stats, files,
                 consolidation, listing, result, contrib, failed_units, io_errors,
                 unlisted>>

\* ThreadPoolExecutor.__exit__ is shutdown(wait=True); then main.py lines 56-58
Shutdown ==
  /\ pc = "shutdown"
  /\ \A r \in state_urls : Finished(r)
  /\ pc' = "exited"
  /\ exit_code' = 0
  /\ UNCHANGED <<retry, extract, helper, discovery, state_urls, futures, task, stats, stats_lock,
                 main_cs, files, consolidation, listing, result, interrupted, contrib,
                 failed_units, io_errors,
                 unlisted>>

(* ===================== utils.py: normalize_text ======================= *)

\* a text is the sequence of its characters
Digits == {"0", "1", "2", "3", "4", "5", "6", "7", "8", "9"}
UpperCase ==
  <<"A", "B", "C", "D", "E", "F", "G", "H", "I", "J", "K", "L", "M",
    "N", "O", "P", "Q", "R", "S", "T", "U", "V", "W", "X", "Y", "Z">>
LowerCase ==
  <<"a", "b", "c", "d", "e", "f", "g", "h", "i", "j", "k", "l", "m",
    "n", "o", "p", "q", "r", "s", "t", "u", "v", "w", "x", "y", "z">>
Whitespace == {" ", "\t", "\n"}
\* the characters [\w\s\-\.\,\(\)\/] keeps
KeptChars ==
  {UpperCase[k] : k \in DOMAIN UpperCase} \cup {LowerCase[k] : k \in DOMAIN LowerCase}
    \cup Digits \cup Whitespace \cup {"_", "-", ".", ",", "(", ")", "/"}

\* str.strip()
RECURSIVE Strip(_)
Strip(text) ==
  IF text = <<>> THEN text
  ELSE IF Head(text) \in Whitespace THEN Strip(Tail(text))
  ELSE IF text[Len(text)] \in Whitespace THEN Strip(SubSeq(text, 1, Len(text) - 1))
  ELSE text

\* re.sub(r'\s+', ' ', text)
RECURSIVE Collapse(_)
Collapse(text) ==
  IF text = <<>> THEN text
  ELSE IF Head(text) \in Whitespace
       THEN IF Len(text) > 1 /\ text[2] \in Whitespace
            THEN Collapse(Tail(text))
            ELSE <<" ">> \o Collapse(Tail(text))
       ELSE <<Head(text)>> \o Collapse(Tail(text))

\* re.sub(r'[^\w\s\-\.\,\(\)\/]', ' ', text)
Scrub(text) == [k \in 1..Len(text) |-> IF text[k] \in KeptChars THEN text[k] ELSE " "]

\* a normalisation without the second clean-up of lines 78-79
normalize_text_once(text) ==
  IF text = <<>> THEN <<>>
  ELSE Scrub(Collapse(Strip(text)))

\* lines 70-81
normalize_text(text) ==
  IF text = <<>> THEN <<>>
  ELSE Collapse(Strip(Scrub(Collapse(Strip(text)))))

(* ============ scraper.py: _extract_ward_info_from_cells ================ *)

\* str.isdigit(), str.lower() and `in` on texts
IsDigit(text) == text # <<>> /\ \A k \in 1..Len(text) : text[k] \in Digits
Lower(c) ==
  IF \E k \in DOMAIN UpperCase : UpperCase[k] = c
  THEN LowerCase[CHOOSE k \in DOMAIN UpperCase : UpperCase[k] = c]
  ELSE c
LowerText(text) == [k \in 1..Len(text) |-> Lower(text[k])]
Contains(text, word) ==
  \E p \in 1..(Len(text) - Len(word) + 1) : SubSeq(text, p, p + Len(word) - 1) = word
WardWord == <<"w", "a", "r", "d">>

\* re.search(r'ward\s*no\.?\s*(\d+)', text, re.IGNORECASE): group 1 of the
\* leftmost match, the empty text when nothing matches
RECURSIVE SkipSpaces(_, _)
SkipSpaces(text, q) ==
  IF q <= Len(text) /\ text[q] \in Whitespace THEN SkipSpaces(text, q + 1) ELSE q
RECURSIVE DigitRun(_, _)
DigitRun(text, q) ==
  IF q <= Len(text) /\ text[q] \in Digits
  THEN <<text[q]>> \o DigitRun(text, q + 1)
  ELSE <<>>
WardNoAt(text, p) ==
  LET low == LowerText(text)
      q == SkipSpaces(low, p + 4)
      d == IF q + 2 <= Len(low) /\ low[q + 2] = "." THEN q + 3 ELSE q + 2
  IN  IF /\ p + 3 <= Len(low)
         /\ SubSeq(low, p, p + 3) = WardWord
         /\ q + 1 <= Len(low)
         /\ SubSeq(low, q, q + 1) = <<"n", "o">>
      THEN DigitRun(low, SkipSpaces(low, d))
      ELSE <<>>
WardNo(text) ==
  LET hits == {p \in 1..Len(text) : WardNoAt(text, p) # <<>>}
  IN  IF hits = {} THEN <<>>
      ELSE WardNoAt(text, CHOOSE p \in hits : \A o \in hits : p <= o)

\* lines 455-480: the branch of the if/elif chain that cell i (from 0) takes
Branch(ward_info, i, text) ==
  IF text = <<>> THEN "empty"
  ELSE IF i = 0 /\ IsDigit(text) THEN "serial"
  ELSE IF i = 1 /\ Contains(LowerText(text), WardWord) THEN "column_name"
  ELSE IF i = 2 /\ IsDigit(text) THEN "column_number"
  ELSE IF i = 3 /\ IsDigit(text) THEN "column_lgd"
  ELSE IF IsDigit(text) /\ Len(text) >= 3 /\ ward_info["lgd_code"] = <<>> THEN "any_lgd"
  ELSE IF IsDigit(text) /\ Len(text) <= 2 /\ ward_info["ward_number"] = <<>> THEN "any_number"
  ELSE IF Contains(LowerText(text), WardWord) /\ Len(text) > 5 /\ ward_info["ward_name"] = <<>>
       THEN "any_name"
  ELSE IF WardNo(text) # <<>> /\ ward_info["ward_name"] = <<>> THEN "ward_no"
  ELSE "none"

\* an extractor that takes the number column for the LGD code and the LGD
\* column for the number
AssignedSwapped(branch) ==
  CASE branch \in {"column_name", "any_name"} -> {"ward_name"}
    [] branch \in {"column_number", "any_number"} -> {"lgd_code"}
    [] branch \in {"column_lgd", "any_lgd"} -> {"ward_number"}
    [] branch = "ward_no" -> {"ward_number", "ward_name"}
    [] OTHER -> {}

\* the fields a branch assigns
Assigned(branch) ==
  CASE branch \in {"column_name", "any_name"} -> {"ward_name"}
    [] branch \in {"column_number", "any_number"} -> {"ward_number"}
    [] branch \in {"column_lgd", "any_lgd"} -> {"lgd_code"}
    [] branch = "ward_no" -> {"ward_number", "ward_name"}
    [] OTHER -> {}

\* the assignments of a branch
OnCell(ward_info, branch, text) ==
  [f \in Fields |->
     IF f \notin Assigned(branch) THEN ward_info[f]
     ELSE IF branch = "ward_no" /\ f = "ward_number" THEN WardNo(text)
     ELSE text]

\* a validation that lets every record through
HasFieldAlways(ward_info) == TRUE

\* line 483: `if ward_info['ward_number'] or ward_info['ward_name'] or ward_info['lgd_code']`
HasField(ward_info) == \E f \in Fields : ward_info[f] # <<>>

\* lines 442-450: the call with the raw texts of the cells of a row
ExtractEnter ==
  /\ extract.status = "called"
  /\ LET cell_texts == [k \in 1..Len(extract.cells) |-> normalize_text(extract.cells[k])]
     IN  extract' = [extract EXCEPT
                       !.cell_texts = cell_texts,
                       !.status = IF \A k \in 1..Len(cell_texts) : cell_texts[k] = <<>>
                                  THEN "returned" ELSE "loop"]
  /\ UNCHANGED <<retry, helper, runVars>>

\* lines 454-480: one iteration of `for i, text in enumerate(cell_texts)`
ExtractCell ==
  /\ extract.status = "loop"
  /\ extract.i < Len(extract.cell_texts)
  /\ LET text == extract.cell_texts[extract.i + 1]
         branch == Branch(extract.ward_info, extract.i, text)
     IN  extract' = [extract EXCEPT
                       !.ward_info = OnCell(@, branch, text),
                       !.i = @ + 1,
                       !.prev = extract.ward_info,
                       !.branch = branch,
                       !.overwritten = @ \cup {f \in Assigned(branch) :
                                                 extract.ward_info[f] # <<>>}]
  /\ UNCHANGED <<retry, helper, runVars>>

\* lines 482-486: the record, or None when no field was set
ExtractReturn ==
  /\ extract.status = "loop"
  /\ extract.i = Len(extract.cell_texts)
  /\ extract' = [extract EXCEPT
                   !.status = "returned",
                   !.result = IF HasField(extract.ward_info)
                              THEN [none |-> FALSE, record |-> extract.ward_info]
                              ELSE NoneResult]
  /\ UNCHANGED <<retry, helper, runVars>>

(* ============ scraper.py: _extract_ulb_type_from_url ================== *)

\* a url is the sequence of the hyphen-separated words of its path, and
\* `url_pattern in url` is Contains on words; type_mapping in dict order
type_mapping ==
  << [url_pattern |-> <<"municipal", "corporations">>, type_name |-> "Municipal Corporation"],
     [url_pattern |-> <<"municipality">>, type_name |-> "Municipality"],
     [url_pattern |-> <<"town", "panchayat">>, type_name |-> "Town Panchayat"],
     [url_pattern |-> <<"notified", "area", "council">>, type_name |-> "Notified Area Council"],
     [url_pattern |-> <<"cantonment", "board">>, type_name |-> "Cantonment Board"],
     [url_pattern |-> <<"nct", "municipal", "council">>, type_name |-> "NCT Municipal Council"],
     [url_pattern |-> <<"city", "municipal", "council">>, type_name |-> "City Municipal Council"],
     [url_pattern |-> <<"town", "municipal", "council">>, type_name |-> "Town Municipal Council"] >>

\* lines 373-377: the type of the first pattern, in dict order, the url holds
RECURSIVE TypeFrom(_, _)
TypeFrom(k, url) ==
  IF k > Len(type_mapping) THEN "Unknown"
  ELSE IF Contains(url, type_mapping[k].url_pattern) THEN type_mapping[k].type_name
  ELSE TypeFrom(k + 1, url)
_extract_ulb_type_from_url(url) == TypeFrom(1, url)

\* _extract_ulb_type_from_url(url) at line 288 or 345
ExtractUlbType ==
  /\ helper.status = "called"
  /\ helper.func = "_extract_ulb_type_from_url"
  /\ helper' = [helper EXCEPT !.status = "returned",
                              !.value = _extract_ulb_type_from_url(helper.arg.text)]
  /\ UNCHANGED <<retry, extract, runVars>>

\* normalize_text(text); `if not text` takes None and the empty text
Normalize ==
  /\ helper.status = "called"
  /\ helper.func = "normalize_text"
  /\ helper' = [helper EXCEPT !.status = "returned",
                              !.value = IF helper.arg.null THEN <<>>
                                        ELSE normalize_text(helper.arg.text)]
  /\ UNCHANGED <<retry, extract, runVars>>

(* ========================== specifications ============================ *)

\* the steps that read no page of the site
Step ==
  \/ \E r \in Regions : InitFile(r)
  \/ \E r \in Regions : AcquireErr(r)
  \/ \E r \in Regions : AcquireUpd(r)
  \/ \E r \in Regions : Load(r)
  \/ \E r \in Regions : Store(r)
  \/ \E r \in Regions : Collect(r)
  \/ MainAcquire
  \/ MainLoad
  \/ MainStore
  \/ Consolidate
  \/ MainExit
  \/ Interrupt
  \/ Shutdown

\* the whole run, the region tasks in parallel
Next ==
  \/ Discover(WholeSite)
  \/ \E r \in Regions : StartTask(r, WholeSite)
  \/ \E r \in Regions : ProcessBody(r, WholeSite)
  \/ Step

Spec == Init /\ [][Next]_vars

\* the run over a site with a single state, whose pages are larger
NextRegion ==
  \/ Discover(RegionSite)
  \/ \E r \in Regions : StartTask(r, RegionSite)
  \/ \E r \in Regions : ProcessBody(r, RegionSite)
  \/ Step

SpecRegion == Init /\ [][NextRegion]_vars

\* the decorator alone: any max_retries up to MaxN, either delay of the call
\* sites, and a func that returns or raises on each invocation
Outcomes == {Returned("V")} \cup {Raised(e) : e \in Exceptions}
InitRetry ==
  /\ InitRun
  /\ extract = ExtractIdle
  /\ helper = CallIdle
  /\ retry \in {RetryStart(n, d) : n \in 0..MaxN, d \in {PageDelay, RootDelay}}

\* one invocation of func by the wrapper
Invoke ==
  /\ retry.status = "running"
  /\ \E out \in Outcomes : retry' = RetryIter(retry, out)
  /\ UNCHANGED <<extract, helper, runVars>>

NextRetry == Invoke

SpecRetry == InitRetry /\ [][NextRetry]_vars

\* the ward extractor alone, on rows of 3 to MaxCells cells (the caller hands
\* it no shorter row, line 420) whose raw texts are drawn from CellPool
CellPool ==
  { <<>>,
    <<" ", "#">>,
    <<"7">>,
    <<"1", "2">>,
    <<"1", "2", "3">>,
    <<"W", "a", "r", "d">>,
    <<"W", "a", "r", "d", " ", " ", "N", "o", ".", "5">>,
    <<"W", "a", "r", "d", " ", "N", "o", ".", " ", "5", " ", "-", " ",
      "C", "e", "n", "t", "r", "a", "l">>,
    <<"A", "b">> }
Rows == UNION {[1..n -> CellPool] : n \in 3..MaxCells}
InitWard ==
  /\ InitRun
  /\ retry = RetryStart(FetchMaxRetries, PageDelay)
  /\ helper = CallIdle
  /\ extract \in {[ExtractIdle EXCEPT !.cells = cells, !.status = "called"] : cells \in Rows}

NextWard ==
  \/ ExtractEnter
  \/ ExtractCell
  \/ ExtractReturn

SpecWard == InitWard /\ [][NextWard]_vars

\* the two helpers alone. normalize_text on None and on every text of up to
\* MaxText characters of TextChars; _extract_ulb_type_from_url on the urls
\* that start with a pattern of type_mapping, go on with a name that may hold
\* another pattern and end with an id, and on urls without a pattern
TextChars == {" ", "\t", "#", "a", "-"}
Texts == UNION {[1..n -> TextChars] : n \in 0..MaxText}
Patterns == {type_mapping[k].url_pattern : k \in 1..Len(type_mapping)}
UrlPool ==
  {head \o <<"x">> \o name \o <<"12">> : head \in Patterns, name \in Patterns \cup {<<>>}}
    \cup { <<>>, <<"x", "12">>, <<"municipal", "council", "x", "12">> }
InitHelpers ==
  /\ InitRun
  /\ retry = RetryStart(FetchMaxRetries, PageDelay)
  /\ extract = ExtractIdle
  /\ helper \in
       {[CallIdle EXCEPT !.func = "normalize_text", !.status = "called",
                         !.arg = [null |-> FALSE, text |-> t]] : t \in Texts}
         \cup {[CallIdle EXCEPT !.func = "normalize_text", !.status = "called",
                                !.arg = [null |-> TRUE, text |-> <<>>]]}
         \cup {[CallIdle EXCEPT !.func = "_extract_ulb_type_from_url", !.status = "called",
                                !.arg = [null |-> FALSE, text |-> u]] : u \in UrlPool}

NextHelpers ==
  \/ Normalize
  \/ ExtractUlbType

SpecHelpers == InitHelpers /\ [][NextHelpers]_vars

\* the listing of one region alone, over district pages that each link a run
\* of up to MaxRunLen consecutive urls out of MaxRunUrl
Runs ==
  {[k \in 1..m |-> lo + k - 1] :
     <<lo, m>> \in {x \in (1..MaxRunUrl) \X (0..MaxRunLen) : x[1] + x[2] - 1 <= MaxRunUrl}}
DistrictSite ==
  [roots |-> {{RegionPool[1]}},
   pages |-> RegionPages(MaxDistricts, {<<>>}),
   links |-> Runs,
   wards |-> {<<>>}]

NextListing ==
  \/ Discover(DistrictSite)
  \/ \E r \in Regions : StartTask(r, DistrictSite)

SpecListing == Init /\ [][NextListing]_vars

\* the consolidation step alone: up to MaxFiles region tasks have ended, each
\* after one urban body of up to MaxFileRows wards, and the as_completed loop
\* has counted them all
FileRegions ==
  {RegionPool[n] : n \in 2..(IF MaxFiles + 1 < Len(RegionPool) THEN MaxFiles + 1
                                                                ELSE Len(RegionPool))}
TableOf(r, n) == <<Header>> \o [w \in 1..n |-> Row(r, Body(1, Unknown), w)]
RECURSIVE Total(_, _)
Total(rows, S) ==
  IF S = {} THEN 0
  ELSE LET r == CHOOSE x \in S : TRUE IN rows[r] + Total(rows, S \ {r})
InitConsolidate ==
  /\ retry = RetryStart(FetchMaxRetries, PageDelay)
  /\ extract = ExtractIdle
  /\ helper = CallIdle
  /\ unlisted = {}
  /\ \E S \in SUBSET FileRegions \ {{}} :
       \E rows \in [S -> 0..MaxFileRows] :
         /\ state_urls = S
         /\ task = [r \in FileRegions |-> NewTask(IF r \in S THEN "done" ELSE "none")]
         /\ files = [f \in {OutputFile(r) : r \in S} |->
                       LET r == CHOOSE x \in S : OutputFile(x) = f IN TableOf(r, rows[r])]
         /\ stats = [c \in Counters |->
                       CASE c \in {"states_processed", "urban_bodies_processed"} -> Cardinality(S)
                         [] c = "wards_extracted" -> Total(rows, S)
                         [] c = "skipped" -> Cardinality({r \in S : rows[r] = 0})
                         [] OTHER -> 0]
         /\ contrib = stats
  /\ pc = "collect"
  /\ discovery = "found"
  /\ futures = {}
  /\ stats_lock = FALSE
  /\ main_cs = NoCs
  /\ consolidation = NoVal
  /\ listing = NoListing
  /\ result = NoVal
  /\ exit_code = NoTmp
  /\ interrupted = FALSE
  /\ failed_units = 0
  /\ io_errors = 0

NextConsolidate ==
  \/ Consolidate
  \/ MainExit

SpecConsolidate == InitConsolidate /\ [][NextConsolidate]_vars

(* ============================== claims =============================== *)

Ended == pc \in {"returned", "exited"}
Wrote(r) == task[r].pc \in {"body", "err_lock", "err_cs", "upd_cs", "done"}
InTaskCs(r) == task[r].pc \in {"err_cs", "upd_cs"}
Distinct(q) == \A a, b \in 1..Len(q) : q[a] = q[b] => a = b
UrlsOf(bodies) == [k \in 1..Len(bodies) |-> bodies[k].url]
\* the entries of bodies whose url no earlier entry has, by position
FirstOfUrl(bodies) ==
  {k \in 1..Len(bodies) : \A j \in 1..(k - 1) : bodies[j].url # bodies[k].url}
RECURSIVE AtPositions(_, _, _)
AtPositions(q, P, k) ==
  IF k > Len(q) THEN <<>>
  ELSE (IF k \in P THEN <<q[k]>> ELSE <<>>) \o AtPositions(q, P, k + 1)

\* C1: when every invocation raises, the wrapped operation is invoked exactly
\* max_retries + 1 times and the wrapper raises the exception of the last
\* invocation; no invocation follows one that returned.
C1_RetryAttempts ==
  /\ retry.status = "raised" =>
       /\ Len(retry.log) = retry.max_retries + 1
       /\ \A n \in 1..Len(retry.log) : ~retry.log[n].ok
       /\ retry.value = retry.log[Len(retry.log)].val
  /\ \A n \in 1..(Len(retry.log) - 1) : ~retry.log[n].ok
  /\ retry.status = "returned" =>
       /\ retry.log[Len(retry.log)].ok
       /\ retry.value = retry.log[Len(retry.log)].val
  /\ retry.status = "running" => Len(retry.log) <= retry.max_retries

\* the default max_retries = 3: four invocations, the last exception differs
\* from the first and is the one raised
C1_Witness ==
  /\ retry.status = "raised"
  /\ retry.max_retries = 3
  /\ Len(retry.log) = 4
  /\ retry.log[1].val = "E1"
  /\ retry.value = "E2"

\* C2: in a region task, a district or urban-body page whose fetch fails after
\* all retries is skipped alone: every district link is visited in order, every
\* listed urban body is fetched in order, and the task raises only before its
\* loop (the region page itself or its output file failed).
C2_UnitSkipped ==
  \A r \in Regions :
    LET t == task[r] IN
    /\ t.pc = "listed" =>
         /\ Len(t.frame.log) = Len(t.frame.district_links)
         /\ \A k \in 1..Len(t.frame.log) : t.frame.log[k].district = t.frame.district_links[k]
         /\ \A k \in 1..Len(t.frame.urban_bodies) :
              t.frame.district_links # <<>> =>
                \E j \in 1..Len(t.frame.log) :
                  t.frame.log[j].ok /\ t.frame.log[j].district = t.frame.urban_bodies[k].district
    /\ t.fetched = SubSeq(UrlsOf(t.unique_bodies), 1, Len(t.fetched))
    /\ t.pc = "body" => Len(t.fetched) = t.i - 1
    /\ t.pc \in {"err_lock", "err_cs"} => Len(t.fetched) = t.i
    /\ t.pc = "upd_cs" => Len(t.fetched) = Len(t.unique_bodies) /\ t.i = Len(t.fetched) + 1
    /\ t.pc = "raised" => t.fetched = <<>> /\ t.i = 0

\* district 1 failed and district 2 was still listed; the first urban body
\* failed and the second was still fetched; the task is past its loop
C2_Witness ==
  \E r \in Regions :
    /\ task[r].pc = "upd_cs"
    /\ Len(task[r].fetched) = 2
    /\ \A k \in 1..2 : task[r].unique_bodies[k].district = 2
    /\ task[r].state_bodies = 1
    /\ failed_units = 2
    /\ io_errors = 0
    /\ stats["errors"] = 1

\* C3: when the task of a region raises, the other tasks still run to their
\* end, the consolidation step still runs and scrape_all_data returns True.
C3_RegionIsolated ==
  (Ended /\ discovery = "found" /\ ~interrupted) =>
    /\ result = "True"
    /\ consolidation # NoVal
    /\ \A r \in state_urls : Finished(r)

\* one task raised, another wrote its rows, and the run returned True
C3_Witness ==
  /\ pc = "returned"
  /\ result = "True"
  /\ \E r1, r2 \in state_urls :
       /\ task[r1].pc = "raised"
       /\ task[r2].pc = "done"
       /\ Len(Content(OutputFile(r2))) > 1

\* C4: the listing of a region never holds two entries with one url; of the
\* entries met with one url the first survives, in the order they were met; so
\* a task fetches the ward page of a url at most once.
C4_Dedup ==
  \A r \in Regions :
    LET t == task[r] IN
    /\ Distinct(UrlsOf(t.unique_bodies))
    /\ Distinct(t.fetched)
    /\ t.pc = "listed" =>
         t.unique_bodies = AtPositions(t.frame.urban_bodies, FirstOfUrl(t.frame.urban_bodies), 1)

\* a url met on two district pages, with another url between: the entry of the
\* first district survives
C4_Witness ==
  \E r \in Regions :
    LET ub == task[r].frame.urban_bodies IN
    /\ task[r].pc = "listed"
    /\ Len(ub) = 3
    /\ ub[1].url = ub[3].url
    /\ ub[1].district # ub[3].district
    /\ ub[2].url # ub[1].url
    /\ Len(task[r].unique_bodies) = 2

\* C5: a counter of self.stats is read and written only by a thread that holds
\* stats_lock, one thread at a time, and when the run has returned every
\* counter equals the sum of the amounts the threads set out to add.
C5_NoLostUpdate ==
  /\ \A r1, r2 \in Regions : (InTaskCs(r1) /\ InTaskCs(r2)) => r1 = r2
  /\ \A r \in Regions : InTaskCs(r) => (stats_lock /\ pc # "cs")
  /\ pc = "cs" => stats_lock
  /\ (Ended /\ result = "True") => \A c \in Counters : stats[c] = contrib[c]

\* the errors counter was raised by a task (a failed urban body) and by the
\* main thread (a failed region), the other region was counted as processed
C5_Witness ==
  /\ pc = "returned"
  /\ result = "True"
  /\ stats["errors"] = 2
  /\ stats["states_processed"] = 1
  /\ Cardinality(state_urls) = 2
  /\ \E r \in state_urls : task[r].pc = "raised"
  /\ \E r \in state_urls : task[r].pc = "done"

\* C6: no two region tasks initialise or append to the same output file.
C6_OwnFile ==
  \A r1, r2 \in state_urls :
    (r1 # r2 /\ Wrote(r1) /\ Wrote(r2)) => OutputFile(r1) # OutputFile(r2)

\* C7: the consolidation step runs only when every region task has finished.
C7_ConsolidationLast ==
  consolidation # NoVal => \A r \in state_urls : Finished(r)

\* two regions, one failed and one done, before the consolidated file exists
C7_Witness ==
  /\ consolidation = "created"
  /\ Exists(ConsolidatedFile)
  /\ Cardinality(state_urls) = 2
  /\ \E r \in state_urls : task[r].pc = "raised"
  /\ \E r \in state_urls : task[r].pc = "done"

\* C8: at the end of a run the errors counter equals the number of districts,
\* urban bodies and regions whose fetch failed after all retries (runs in
\* which no file write failed).
C8_ErrorsCountUnits ==
  (Ended /\ result = "True" /\ io_errors = 0) => stats["errors"] = failed_units

\* C9: when the fetch of the site root fails on all max_retries + 1 attempts,
\* no task is started, nothing is consolidated, scrape_all_data returns False
\* and the process exits with status 1.
C9_DiscoveryFatal ==
  /\ \A k \in FailureCounts :
       Fetch(RootDelay, k, {}).status = "raised" <=> k = FetchMaxRetries + 1
  /\ discovery = "raised" =>
       /\ Ended
       /\ result = "False"
       /\ state_urls = {}
       /\ \A r \in Regions : task[r].pc = "none"
       /\ consolidation = NoVal
       /\ files = <<>>
       /\ pc = "exited" => exit_code = 1

C9_Witness ==
  /\ discovery = "raised"
  /\ pc = "exited"
  /\ exit_code = 1

\* C10 as stated: with every page fetched and every file written, whatever
\* structure the pages lack, no error is raised or counted and the run is not
\* reported as failed.
C10_AnomalyNeverFatal ==
  (discovery \in {"empty", "found"} /\ failed_units = 0 /\ io_errors = 0) =>
    /\ \A r \in Regions : task[r].pc # "raised"
    /\ stats["errors"] = 0
    /\ result # "False"

\* C10 amended: the same below the site root; a site root without state links
\* makes scrape_all_data return False and the process exit with status 1.
C10_AnomalyBelowRoot ==
  /\ (discovery = "found" /\ failed_units = 0 /\ io_errors = 0) =>
       /\ \A r \in Regions : task[r].pc # "raised"
       /\ stats["errors"] = 0
       /\ contrib["errors"] = 0
       /\ result # "False"
  /\ discovery = "empty" =>
       /\ Ended
       /\ result = "False"
       /\ \A r \in Regions : task[r].pc = "none"
       /\ pc = "exited" => exit_code = 1

\* two regions processed: one listed no urban body, the only urban body of the
\* other had no ward rows; the run returned True with no error counted
C10_Witness ==
  /\ pc = "exited"
  /\ result = "True"
  /\ failed_units = 0
  /\ io_errors = 0
  /\ stats["states_processed"] = 2
  /\ stats["urban_bodies_processed"] = 1
  /\ stats["skipped"] = 1
  /\ stats["errors"] = 0

\* C11: when scrape_all_data returns True the process exits with status 0.
C11_SuccessExitsZero ==
  (pc = "exited" /\ result = "True") => exit_code = 0

\* C12: a run ended by a user interrupt exits with a status other than 0.
C12_InterruptNonZero ==
  (pc = "exited" /\ interrupted) => exit_code # 0

IsPrefix(a, b) == Len(a) <= Len(b) /\ SubSeq(b, 1, Len(a)) = a

\* C13: once the interrupt has arrived the main thread is never held back by
\* an unfinished region task, no task that had not started is begun, and every
\* file keeps what it held.
C13_PromptAbort ==
  /\ [](pc = "shutdown" => \A r \in state_urls : Finished(r))
  /\ [][interrupted =>
          /\ \A r \in Regions : task[r].pc = "pending" => task'[r].pc = "pending"
          /\ \A f \in DOMAIN files : f \in DOMAIN files' /\ IsPrefix(files[f], files'[f])
       ]_vars

IsTable(lines) ==
  /\ lines # <<>>
  /\ lines[1] = Header
  /\ \A k \in 2..Len(lines) : lines[k].kind = "row"

\* C14: when the traversal is over every discovered region has an output file
\* that is the header followed by rows, also a region whose task raised.
C14_RegionTables ==
  consolidation # NoVal =>
    \A r \in state_urls : Exists(OutputFile(r)) /\ IsTable(Content(OutputFile(r)))

RECURSIVE RowsInOrder(_)
RowsInOrder(order) ==
  IF order = <<>> THEN <<>>
  ELSE Tail(files[Head(order)]) \o RowsInOrder(Tail(order))
RECURSIVE RowCount(_)
RowCount(S) ==
  IF S = {} THEN 0
  ELSE LET f == CHOOSE g \in S : TRUE IN (Len(files[f]) - 1) + RowCount(S \ {f})
Readable(f) == f \notin listing.unreadable

\* C15: with every region file read, the consolidated file is the header once,
\* then the data rows of every region file, the files in listdir order and the
\* rows in their order within each file, and nothing else; its data rows number
\* the sum of the data rows of the region files.
C15_Consolidated ==
  (consolidation = "created" /\ listing.unreadable = {}) =>
    LET out == Content(ConsolidatedFile) IN
    /\ Distinct(listing.order)
    /\ {listing.order[k] : k \in 1..Len(listing.order)} = StateFiles
    /\ IsTable(out)
    /\ out = <<Header>> \o RowsInOrder(listing.order)
    /\ Len(out) - 1 = RowCount(StateFiles)

\* three region files listed with 2, 0 and 3 data rows: the consolidated file
\* is one header and 5 data rows
C15_Witness ==
  /\ consolidation = "created"
  /\ listing.unreadable = {}
  /\ Len(listing.order) = 3
  /\ Len(files[listing.order[1]]) = 1 + 2
  /\ Len(files[listing.order[2]]) = 1 + 0
  /\ Len(files[listing.order[3]]) = 1 + 3
  /\ Len(Content(ConsolidatedFile)) = 1 + 5

\* C16: a region file that cannot be read costs one warning and nothing more:
\* the consolidated file is still written, with the rows of every readable file
\* in listdir order, and scrape_all_data still returns True.
C16_UnreadableSkipped ==
  consolidation = "created" =>
    LET out == Content(ConsolidatedFile) IN
    /\ listing.warnings = Cardinality(listing.unreadable)
    /\ result = "True"
    /\ Exists(ConsolidatedFile)
    /\ out = <<Header>> \o RowsInOrder(SelectSeq(listing.order, Readable))
    /\ \A f \in StateFiles :
         Readable(f) => \A k \in 2..Len(files[f]) : \E j \in 2..Len(out) : out[j] = files[f][k]

\* the file listed first, of two rows, could not be read; the rows of the two
\* files listed after it still reached the consolidated file
C16_Witness ==
  /\ consolidation = "created"
  /\ pc = "exited"
  /\ Len(listing.order) = 3
  /\ listing.unreadable = {listing.order[1]}
  /\ listing.warnings = 1
  /\ Len(files[listing.order[1]]) = 1 + 2
  /\ Content(ConsolidatedFile) =
       <<Header>> \o Tail(files[listing.order[2]]) \o Tail(files[listing.order[3]])
  /\ Len(Content(ConsolidatedFile)) = 1 + 3

\* C17: a call whose func raises on its first k invocations and then returns,
\* k <= max_retries, returns the value of that invocation with exactly k
\* warnings, k sleeps and no error-level event; a call never raises once an
\* invocation returned.
C17_WarningsPerFailure ==
  /\ retry.status = "returned" =>
       LET k == Len(retry.log) - 1 IN
       /\ k <= retry.max_retries
       /\ \A n \in 1..k : ~retry.log[n].ok
       /\ retry.log[k + 1].ok
       /\ retry.value = retry.log[k + 1].val
       /\ retry.warnings = k
       /\ Len(retry.sleeps) = k
       /\ retry.errors = 0
  /\ retry.status = "raised" => \A n \in 1..Len(retry.log) : ~retry.log[n].ok

\* max_retries = 3, two failures, then the value: exactly 2 warnings
C17_Witness ==
  /\ retry.status = "returned"
  /\ retry.max_retries = 3
  /\ Len(retry.log) = 3
  /\ retry.value = "V"
  /\ retry.warnings = 2
  /\ retry.errors = 0

\* C18: in the pass over the cells of a row no field that an earlier cell set
\* is assigned again by a later cell.
C18_NoOverwrite ==
  extract.overwritten = {}

\* C19: a cell that matches 'ward no. <digits>' and is reached while ward_name
\* is unset leaves ward_number the captured digits and ward_name its text.
C19_WardNoPattern ==
  LET text == extract.cell_texts[extract.i] IN
  (/\ extract.status \in {"loop", "returned"}
   /\ extract.i >= 1
   /\ WardNo(text) # <<>>
   /\ extract.prev["ward_name"] = <<>>) =>
    /\ extract.ward_info["ward_number"] = WardNo(text)
    /\ extract.ward_info["ward_name"] = text

\* C20: the extractor returns None when every cell is empty after
\* normalisation and when the pass set no field, and only then; a record it
\* returns is the one the pass built and has a non-empty field.
C20_NoneOrNonEmpty ==
  extract.status = "returned" =>
    /\ (\A k \in 1..Len(extract.cells) : normalize_text(extract.cells[k]) = <<>>)
         => extract.result.none
    /\ extract.result.none <=> extract.ward_info = NoWard
    /\ ~extract.result.none =>
         /\ extract.result.record = extract.ward_info
         /\ \E f \in Fields : extract.result.record[f] # <<>>

\* the row of three blank cells, one of them blank only after normalisation
C20_Witness ==
  /\ extract.status = "returned"
  /\ extract.cells = << <<>>, <<" ", "#">>, <<>> >>
  /\ extract.result.none

\* C21: for a row [digits, text with 'ward', digits, digits] the extractor
\* returns ward_name = cell 1, ward_number = cell 2 and lgd_code = cell 3, and
\* the cell at index 0 sets no field.
C21_CanonicalRow ==
  LET ct == extract.cell_texts IN
  (/\ extract.status \in {"loop", "returned"}
   /\ Len(ct) = 4
   /\ IsDigit(ct[1])
   /\ Contains(LowerText(ct[2]), WardWord)
   /\ IsDigit(ct[3])
   /\ IsDigit(ct[4])) =>
    /\ extract.i = 1 => extract.ward_info = NoWard
    /\ extract.status = "returned" =>
         /\ ~extract.result.none
         /\ extract.result.record =
              [f \in Fields |-> CASE f = "ward_name" -> ct[2]
                                  [] f = "ward_number" -> ct[3]
                                  [] f = "lgd_code" -> ct[4]]

\* the row ["7", "Ward No. 5 - Central", "7", "123"]
C21_Witness ==
  /\ extract.status = "returned"
  /\ Len(extract.cells) = 4
  /\ extract.cells[1] = <<"7">>
  /\ Len(extract.cells[2]) = 20
  /\ extract.result.record["ward_name"] = extract.cells[2]
  /\ extract.result.record["ward_number"] = <<"7">>
  /\ extract.result.record["lgd_code"] = <<"1", "2", "3">>

Elems(q) == {q[k] : k \in 1..Len(q)}

\* C22: in a region whose page has district links, every listed urban body
\* carries the district of the first district page, in link order, that links
\* its url, and every url linked by a fetched district page is listed exactly
\* once.
C22_DistrictTags ==
  \A r \in Regions :
    LET t == task[r]
        log == t.frame.log
        ub == t.unique_bodies
        found == UNION {Elems(log[j].links) : j \in 1..Len(log)}
    IN  (t.pc = "listed" /\ t.frame.district_links # <<>>) =>
          /\ \A k \in 1..Len(ub) :
               \E j \in 1..Len(log) :
                 /\ log[j].ok
                 /\ log[j].district = ub[k].district
                 /\ log[j].district = t.frame.district_links[j]
                 /\ ub[k].url \in Elems(log[j].links)
                 /\ \A o \in 1..(j - 1) : ub[k].url \notin Elems(log[o].links)
          /\ \A u \in found : Cardinality({k \in 1..Len(ub) : ub[k].url = u}) = 1
          /\ Len(ub) = Cardinality(found)

\* 2 district links, each page with 3 urban bodies, one url on both pages: 5
\* entries, the repeated url with the first district
C22_Witness ==
  \E r \in Regions :
    LET t == task[r] IN
    /\ t.pc = "listed"
    /\ Len(t.frame.district_links) = 2
    /\ Len(t.frame.log[1].links) = 3
    /\ Len(t.frame.log[2].links) = 3
    /\ Cardinality(Elems(t.frame.log[1].links) \cap Elems(t.frame.log[2].links)) = 1
    /\ Len(t.unique_bodies) = 5
    /\ \A k \in 1..3 : t.unique_bodies[k].district = t.frame.district_links[1]
    /\ \A k \in 4..5 : t.unique_bodies[k].district = t.frame.district_links[2]

StartsWith(url, pattern) ==
  Len(pattern) <= Len(url) /\ SubSeq(url, 1, Len(pattern)) = pattern

\* C23: a url whose path begins with one of the 8 patterns gets the type of
\* that pattern, whatever follows; a url that holds no pattern gets Unknown.
C23_TypeByPrefix ==
  (helper.func = "_extract_ulb_type_from_url" /\ helper.status = "returned") =>
    LET url == helper.arg.text IN
    /\ \A k \in 1..Len(type_mapping) :
         StartsWith(url, type_mapping[k].url_pattern) =>
           helper.value = type_mapping[k].type_name
    /\ (\A k \in 1..Len(type_mapping) : ~Contains(url, type_mapping[k].url_pattern)) =>
         helper.value = "Unknown"

\* C24: normalize_text gives the empty text for None and for the empty text,
\* and applied to its own result gives that result again.
C24_NormalizeIdempotent ==
  (helper.func = "normalize_text" /\ helper.status = "returned") =>
    /\ (helper.arg.null \/ helper.arg.text = <<>>) => helper.value = <<>>
    /\ normalize_text(helper.value) = helper.value

\* "a##a" becomes "a a": both clean-ups of whitespace were needed
C24_Witness ==
  /\ helper.func = "normalize_text"
  /\ helper.status = "returned"
  /\ helper.arg.text = <<"a", "#", "#", "a">>
  /\ helper.value = <<"a", " ", "a">>

RECURSIVE Power(_, _)
Power(b, n) == IF n = 0 THEN 1 ELSE b * Power(b, n - 1)
Failures(log) == Cardinality({n \in 1..Len(log) : ~log[n].ok})

\* C25: the wait before the i-th retry is the initial delay times 2^(i-1);
\* there is one wait for each failed attempt that is followed by another
\* attempt: none before the first attempt, none after an attempt that returned
\* and none after the failed attempt number max_retries + 1.
C25_Backoff ==
  LET sleeps == retry.sleeps IN
  /\ \A i \in 1..Len(sleeps) :
       /\ sleeps[1] \in {PageDelay, RootDelay}
       /\ sleeps[i] = sleeps[1] * Power(2, i - 1)
  /\ retry.current_delay \in {d * Power(2, Len(sleeps)) : d \in {PageDelay, RootDelay}}
  /\ Len(retry.log) = 0 => sleeps = <<>>
  /\ Len(sleeps) <= retry.max_retries
  /\ retry.status = "running" => Len(sleeps) = Failures(retry.log)
  /\ retry.status = "returned" => Len(sleeps) = Len(retry.log) - 1
  /\ retry.status = "raised" => Len(sleeps) = Len(retry.log) - 1

\* delay 2 and max_retries 3, all four attempts failed: waits of 2, 4 and 8
C25_Witness ==
  /\ retry.status = "raised"
  /\ retry.max_retries = 3
  /\ Len(retry.log) = 4
  /\ retry.sleeps = <<2, 4, 8>>

Yielded == state_urls \ futures
DoneOf(S) == {r \in S : task[r].pc = "done"}
RaisedOf(S) == {r \in S : task[r].pc = "raised"}

\* C26: every future as_completed yielded was counted once, in
\* states_processed when its task ended normally and in the errors of the main
\* thread when it raised; when scrape_all_data returns after the fan-out the
\* two counts add up to the number of discovered regions.
C26_RegionsAccounted ==
  /\ pc = "collect" =>
       /\ contrib["states_processed"] = Cardinality(DoneOf(Yielded))
       /\ stats["states_processed"] = Cardinality(DoneOf(Yielded))
       /\ stats["errors"] >= Cardinality(RaisedOf(Yielded))
  /\ (Ended /\ discovery = "found" /\ ~interrupted) =>
       /\ futures = {}
       /\ DoneOf(state_urls) \cap RaisedOf(state_urls) = {}
       /\ stats["states_processed"] = Cardinality(DoneOf(state_urls))
       /\ stats["states_processed"] + Cardinality(RaisedOf(state_urls))
            = Cardinality(state_urls)
       /\ stats["errors"] >= Cardinality(RaisedOf(state_urls))
       /\ stats["errors"] + failed_units + io_errors = 0 =>
            stats["states_processed"] = Cardinality(state_urls)

\* two regions, one task raised on its region page and one ended normally
\* without a failed urban body: one region in each count
C26_Witness ==
  /\ pc = "returned"
  /\ result = "True"
  /\ Cardinality(state_urls) = 2
  /\ Cardinality(RaisedOf(state_urls)) = 1
  /\ stats["states_processed"] = 1
  /\ stats["errors"] = 1
  /\ failed_units = 1
  /\ io_errors = 0

\* the urban bodies with a row in the file of region r
BodiesInFile(r) ==
  {Content(OutputFile(r))[k].url : k \in 2..Len(Content(OutputFile(r)))}

\* C27: in the task of the only region of a run, which did not raise: the
\* bodies counted as processed plus the bodies whose iteration raised (the
\* errors counter) are the bodies gone through, all of the listing at the end
\* of the loop; the skipped ones are the processed ones without a row in the
\* file; the wards counted are the data rows of the file; and the task adds
\* exactly these amounts to the counters.
C27_TaskCounts ==
  \A r \in Regions :
    LET t == task[r]
        rows == Len(Content(OutputFile(r))) - 1
    IN  /\ t.pc = "body" =>
             /\ t.state_bodies + stats["errors"] = t.i - 1
             /\ t.state_bodies = t.state_skipped + Cardinality(BodiesInFile(r))
             /\ t.state_wards = rows
        /\ t.pc = "upd_cs" =>
             /\ t.state_bodies + stats["errors"] = Len(t.unique_bodies)
             /\ t.state_bodies = t.state_skipped + Cardinality(BodiesInFile(r))
             /\ t.state_wards = rows
        /\ t.pc = "done" =>
             /\ stats["urban_bodies_processed"] = stats["skipped"] + Cardinality(BodiesInFile(r))
             /\ stats["wards_extracted"] = rows
             /\ \A c \in {"urban_bodies_processed", "wards_extracted", "skipped"} :
                  stats[c] = contrib[c]

\* two urban bodies listed: the fetch of one failed, the other gave a ward
C27_Witness ==
  \E r \in Regions :
    /\ task[r].pc = "done"
    /\ stats["errors"] = 1
    /\ stats["urban_bodies_processed"] = 1
    /\ stats["wards_extracted"] = 1
    /\ stats["skipped"] = 0
    /\ failed_units = 1
    /\ Len(Content(OutputFile(r))) = 2

\* C28: the listing of a region page with district links holds only links of
\* district pages whose fetch succeeded, never a link of the page's own tables;
\* when every district fetch failed it is empty, the task ends normally (its
\* output file opened) with a file of the header alone, and the run of this
\* one region counts it in states_processed and has no error counted.
C28_NoFallback ==
  /\ \A r \in Regions :
       LET t == task[r]
       IN  /\ (t.pc = "listed" /\ t.frame.district_links # <<>>) =>
                /\ \A k \in 1..Len(t.unique_bodies) :
                     /\ t.unique_bodies[k].district # Unknown
                     /\ \E j \in 1..Len(t.frame.log) :
                          /\ t.frame.log[j].ok
                          /\ t.frame.log[j].district = t.unique_bodies[k].district
                          /\ t.unique_bodies[k].url \in Elems(t.frame.log[j].links)
                /\ AllDistrictsFailed(t.frame) =>
                     (r \in unlisted /\ t.unique_bodies = <<>>)
           /\ r \in unlisted =>
                /\ t.pc \in {"listed", "done", "raised"}
                /\ t.pc = "raised" => (t.exc = "OSError" /\ io_errors > 0)
                /\ t.pc = "done" => Content(OutputFile(r)) = <<Header>>
                /\ io_errors = 0 => stats["errors"] = 0
                /\ stats["urban_bodies_processed"] = 0
  /\ (Ended /\ unlisted # {} /\ io_errors = 0 /\ ~interrupted) =>
       /\ \A r \in unlisted : task[r].pc = "done"
       /\ stats["states_processed"] = Cardinality(unlisted)
       /\ stats["errors"] = 0

\* a region of two districts whose fetches both failed: the run returned with
\* the region processed, no error counted and its file holding the header only
C28_Witness ==
  \E r \in unlisted :
    /\ pc = "returned"
    /\ result = "True"
    /\ failed_units = 2
    /\ io_errors = 0
    /\ task[r].pc = "done"
    /\ Content(OutputFile(r)) = <<Header>>
    /\ stats["states_processed"] = 1
    /\ stats["errors"] = 0

====
